---- MODULE Spec2Model ----
(***************************************************************************)
(* A model of the 2D NUFFT transform orchestrator: finufft2d1, finufft2d2, *)
(* finufft2d3 and the batched finufft2d1many / finufft2d2many with their   *)
(* sequential (manyseq) and simultaneous (manysimul) disciplines.          *)
(*                                                                         *)
(* One behaviour is one invocation of a public entry.  The state is the    *)
(* position in the code (fn, pc, the stack of callers), the locals of the  *)
(* running function, the heap (every malloc'd buffer and the FFT plan),    *)
(* the contents of the arrays at block granularity, and a history of the   *)
(* steps executed.  Numerical values are abstracted to what they were      *)
(* computed from: an fw slice is the set of strength blocks spread into it *)
(* (each with the number of FFTs it went through) plus a flag for          *)
(* uninitialized memory.                                                   *)
(***************************************************************************)
EXTENDS Integers, Sequences, FiniteSets, TLC

\* ------------------------------------------------------------------ bounds
MaxNdata == 3      \* transforms per batched call: ndata in -1..MaxNdata
MaxNth   == 2      \* thread counts: nth in 1..MaxNth
MaxNj    == 2      \* nonuniform points per transform: nj in 1..MaxNj
MaxModes == 4      \* mode counts whose layout is followed index by index

\* --------------------------------------------------------- program constants
\* Status codes (defs.h is not part of the sources at hand; the names are the
\* specification's, the values are distinct positive codes).
ERR_EPS_TOO_SMALL        == 1
ERR_MAXNALLOC            == 2
ERR_SPREAD_BOX_SMALL     == 3
ERR_SPREAD_PTS_OUT_RANGE == 4
ERR_SPREAD_ALLOC         == 5
ERR_NDATA_NOTVALID       == 9

\* The allocation cap on nf1*nf2, scaled to the grid sizes of the model.
MAX_NF == 6000

\* The largest int, scaled as MAX_NF is: below the cap, as 2^31-1 is below
\* the cap of a build whose grids may exceed it.
INT_MAX == 2047
INT_MIN == 0 - INT_MAX - 1

\* Kernel width limits and the oversampling factor sigma = 2.
MIN_NSPREAD == 4
MAX_NSPREAD == 16
UPSAMPFAC   == 2

\* A tolerance is m * 10^(-e) with a two-digit mantissa m in 10..99, so that
\* 1.1e-16 is (11,17), 1e-6 is (10,7) and 1.0 is (10,1).
Tol(m, e) == [m |-> m, e |-> e]
EPSILON == Tol(11, 17)
ONE     == Tol(10, 1)
TolLess(a, b) == a.e > b.e \/ (a.e = b.e /\ a.m < b.m)

EpsVals == { Tol(10, 17),     \* 1e-17, below machine epsilon: rejected
             EPSILON,         \* exactly machine epsilon: accepted
             ONE }            \* 1.0: rejected

\* Mode counts (types 1, 2) and type-3 space-bandwidth products 2*X*S/pi.
ModeVals == {1, 50}
XSVals   == {1, 5, 30}
IflagVals == {-1, 0, 1}

\* ----------------------------------------------------------------- helpers
Min(a, b) == IF a < b THEN a ELSE b
Max(a, b) == IF a > b THEN a ELSE b

RECURSIVE StripFactor(_, _)
StripFactor(n, p) == IF n > 1 /\ n % p = 0 THEN StripFactor(n \div p, p) ELSE n

\* next235even: the smallest even integer >= n with no prime factor above 5.
next235even(n) ==
  LET start == IF n <= 2 THEN 2 ELSE n + (n % 2)
      ok(k) == k % 2 = 0 /\ StripFactor(StripFactor(StripFactor(k, 2), 3), 5) = 1
  IN  CHOOSE k \in start..(2 * start) :
        ok(k) /\ \A j \in start..(k - 1) : ~ok(j)

\* setup_spreader_for_nufft: the status for a tolerance, and the kernel width.
SetupIer(eps) ==
  IF TolLess(eps, EPSILON) \/ ~TolLess(eps, ONE) THEN ERR_EPS_TOO_SMALL ELSE 0

\* ns = ceil(-log10(eps)) + 1, which is the exponent e of m * 10^(-e).
Nspread(eps) == Max(MIN_NSPREAD, Min(MAX_NSPREAD, eps.e))

\* set_nf_type12: smallest even 2,3,5-smooth integer >= max(2 ns, sigma m).
set_nf_type12(m, ns) == next235even(Max(2 * ns, UPSAMPFAC * m))

\* set_nhg_type3: nf ~ sigma (2 X S / pi + ns).
set_nhg_type3(xs, ns) == next235even(Max(2 * ns, UPSAMPFAC * (xs + ns)))


\* ------------------------------------------------------------------- state
VARIABLES
  entry,    \* the public entry that was called
  arg,      \* its arguments: ndata, nj, nk, eps, ms, mt, xs1, xs2, iflag, inrange
  opts,     \* nufft_opts: many_seq, chkbnds, modeord
  nth,      \* MY_OMP_GET_MAX_THREADS()
  env,      \* the environment: whether fresh memory holds garbage (junk),
            \* whether a spreader call may fail on valid input (flaky) and
            \* whether an overflowing int product wraps around (wrap)
  fn,       \* the function executing
  pc,       \* its position
  stack,    \* the frames of its callers
  loc,      \* its parameters and locals
  heap,     \* every buffer: "none", "live", "freed" or "corrupt"
  plan,     \* the FFT plan p: "none", "live", "destroyed" or "corrupt"
  mem,      \* array contents, one abstract value per block or slice
  hist,     \* the steps executed so far
  status,   \* "running", "returned" (to the caller) or "exited" (the process)
  ret,      \* the status value handed back, or the exit code
  runs      \* the outcomes of the calls made before this one

vars == <<entry, arg, opts, nth, env, fn, pc, stack, loc, heap, plan, mem,
          hist, status, ret, runs>>

\* what no step of the code changes: the call's inputs and the earlier calls
inputs == <<entry, arg, opts, nth, env, runs>>

EntryFns == {"finufft2d1", "finufft2d2", "finufft2d3",
             "finufft2d1many", "finufft2d2many"}
ManyFns  == {"finufft2d1many", "finufft2d2many"}
Type1Fns == {"finufft2d1", "finufft2d1manyseq", "finufft2d1manysimul"}
Type2Fns == {"finufft2d2", "finufft2d2manyseq", "finufft2d2manysimul"}
SeqFns   == {"finufft2d1manyseq", "finufft2d2manyseq"}
SimulFns == {"finufft2d1manysimul", "finufft2d2manysimul"}
BatchFns == SeqFns \cup SimulFns
Type12Fns == Type1Fns \cup Type2Fns

Bufs12 == {"fwkerhalf1", "fwkerhalf2", "fw", "sort_indices"}
Bufs3  == {"xpj", "ypj", "cpj", "fw3", "sp", "tp", "fkker1", "fkker2"}
Bufs   == Bufs12 \cup Bufs3

\* Blocks of the user arrays c and fk, and slices of fw.  The index range is
\* wider than any valid call needs, so that an access past the end shows.
Blocks == 0..(MaxNdata + MaxNth)
Arrays == {"c", "fk", "fw", "fw3", "cpj"}

\* ---------------------------------------------------------- abstract values
\* acc: the strength (or mode) blocks the value was computed from, each with
\* the number of FFTs it went through; junk: it depends on uninitialized
\* memory; w: the callee wrote it; ord: the mode ordering it was shuffled in.
In(d)    == [acc |-> {[blk |-> d, ffts |-> 0]}, junk |-> FALSE, w |-> FALSE, ord |-> -1]
Fresh(j) == [acc |-> {}, junk |-> j, w |-> FALSE, ord |-> -1]

\* cnufftspread, direction 1: the kernel-weighted strengths are added to fw.
SpreadInto(fwv, cv) ==
  [acc |-> fwv.acc \cup cv.acc, junk |-> fwv.junk \/ cv.junk, w |-> TRUE, ord |-> -1]

\* cnufftspread, direction 2: the targets are interpolated from fw.
Interp(fwv) == [fwv EXCEPT !.w = TRUE]

\* FFTW_EX on one slice, in place.
FFT(v) == [v EXCEPT !.acc = {[blk |-> a.blk, ffts |-> a.ffts + 1] : a \in v.acc}]

\* deconvolveshuffle2d, direction 1 (fw -> fk) and 2 (fk -> fw, rest zeroed).
Deconv1(fwv, modeord) == [fwv EXCEPT !.w = TRUE, !.ord = modeord]
Deconv2(fkv, modeord) == [fkv EXCEPT !.w = TRUE, !.ord = modeord]

\* deconvolveshuffle2d at the level of indices.  The modes of a dimension
\* with m of them are -m/2 .. (m-1)/2.
Modes(m) == (0 - (m \div 2))..((m - 1) \div 2)

\* (the CMCL offset rounded up, to compare with)
FkIndexUp(k, m, modeord) ==
  IF modeord = 0 THEN k + ((m + 1) \div 2) ELSE IF k >= 0 THEN k ELSE k + m

\* where mode k sits in fk: modeord 0 is ascending, fk[k+m/2]; modeord 1 is
\* FFT order, the non-negative modes first and the negative ones after them
FkIndex(k, m, modeord) ==
  IF modeord = 0 THEN k + (m \div 2) ELSE IF k >= 0 THEN k ELSE k + m

\* k_f = (k >= 0 ? k : k + nf), the fw cell of mode k
FwCell(k, nf) == IF k >= 0 THEN k ELSE k + nf

\* the kernel table entry of mode k: fwkerhalf[|k|]
KerIndex(k) == IF k >= 0 THEN k ELSE 0 - k

\* one dimension: for each mode, the fk index, the fw cell and the kernel
\* entry that the routine pairs up
deconvolveshuffle1d(m, nf, modeord) ==
  {[idx |-> FkIndex(k, m, modeord), cell |-> FwCell(k, nf), ker |-> KerIndex(k)] :
     k \in Modes(m)}

\* two dimensions, ms fast: fk[i1 + ms*i2] pairs with fw[c1 + nf1*c2] and
\* fwkerhalf1[a1]*fwkerhalf2[a2]
deconvolveshuffle2d(ms, mt, nf1, nf2, modeord) ==
  {[idx |-> a.idx + ms * b.idx, cell |-> a.cell + nf1 * b.cell,
    ker |-> <<a.ker, b.ker>>] :
     <<a, b>> \in deconvolveshuffle1d(ms, nf1, modeord)
                   \X deconvolveshuffle1d(mt, nf2, modeord)}

\* The status values a spreader call can hand back when no bound is violated:
\* success, two distinct error codes, and a negative value.
SpreadStatusVals == {-1, 0, ERR_SPREAD_BOX_SMALL, ERR_SPREAD_ALLOC}

\* cnufftcheck: the bounds check alone.
cnufftcheck(chkbnds, inrange) ==
  IF chkbnds = 1 /\ ~inrange THEN ERR_SPREAD_PTS_OUT_RANGE ELSE 0


\* -------------------------------------------------------------- history
\* A step: what ran, in which function, on which array, transform, slice
\* and offset, the status or value it produced, and the did_sort the
\* function held when it ran.
Ev(op, x, d, sl, off, ier) ==
  [op |-> op, fn |-> fn, depth |-> Len(stack), x |-> x, d |-> d, sl |-> sl,
   off |-> off, ier |-> ier, did_sort |-> loc.did_sort]

\* ---------------------------------------------------------------- heap
Malloc(h, bs) == [b \in Bufs |-> IF b \in bs THEN "live" ELSE h[b]]
\* (a free that takes every live buffer with it, to compare with)
FreeAll(h, bs) ==
  [b \in Bufs |-> IF b \in bs THEN (IF h[b] = "live" THEN "freed" ELSE "corrupt")
                  ELSE IF h[b] = "live" THEN "freed" ELSE h[b]]

Free(h, bs) ==
  [b \in Bufs |-> IF b \in bs THEN (IF h[b] = "live" THEN "freed" ELSE "corrupt")
                  ELSE h[b]]

\* ------------------------------------------------------------- locals
Zeros == [i \in 0..(MaxNth - 1) |-> 0]

Locals(ms, mt, nj, inrange, carr, fkarr, iflag) ==
  [ms |-> ms, mt |-> mt, nj |-> nj, inrange |-> inrange,
   carr |-> carr, fkarr |-> fkarr, iflag |-> iflag,
   ns |-> 0, nf1 |-> 0, nf2 |-> 0, ier_spread |-> 0, did_sort |-> 0,
   fftsign |-> 0, i |-> 0, j |-> 0, ier_spreads |-> Zeros, abort |-> Zeros,
   pend |-> {}, ier_t2 |-> 0, planargs |-> <<>>]

\* ------------------------------------------------------ spreader statuses
\* The statuses of cnufftspreadwithsortidx, which does not check the bounds.
cnufftspreadwithsortidxIer == IF env.flaky THEN SpreadStatusVals ELSE {0}

\* The statuses of cnufftspread, which checks the bounds first.
cnufftspreadIer(chkbnds, inrange) ==
  IF cnufftcheck(chkbnds, inrange) # 0 THEN {ERR_SPREAD_PTS_OUT_RANGE}
  ELSE cnufftspreadwithsortidxIer

\* ------------------------------------------------------------------ Init
\* The calls of entries E with iflag in Fl, modeord in Or, tolerance in Ep,
\* fresh memory that holds garbage or not as Ju says, and int overflow that
\* wraps or not as Wr says.
InitWith(E, Fl, Or, Ju, Ep, Wr) ==
  /\ entry \in E
  /\ opts \in [many_seq : {0, 1}, chkbnds : {0, 1}, modeord : Or]
  /\ entry \notin ManyFns => opts.many_seq = 0
  /\ nth \in 1..MaxNth
  /\ env \in [junk : Ju, flaky : {TRUE}, wrap : Wr]
  /\ arg \in [ndata : -1..MaxNdata, nj : 1..MaxNj, nk : 1..MaxNj,
              eps : Ep, ms : ModeVals, mt : ModeVals,
              xs1 : XSVals, xs2 : XSVals, iflag : Fl, inrange : BOOLEAN]
  /\ entry \notin ManyFns => arg.ndata = 1
  /\ entry # "finufft2d3" => arg.nk = 1 /\ arg.xs1 = 1 /\ arg.xs2 = 1
  /\ entry = "finufft2d3" => arg.ms = 1 /\ arg.mt = 1
  \* points outside [-3pi,3pi] are only passed with chkbnds set
  /\ ~arg.inrange => opts.chkbnds = 1
  \* nf1 and nf2 are computed alike: the longer side is taken to be mt, and
  \* the tolerances other than the tightest go with square mode arrays
  /\ arg.ms <= arg.mt
  /\ arg.eps # EPSILON => arg.ms = arg.mt

\* The arrays when entry e is called with its input pointer at block b0 of
\* the caller's data: the input array holds the data, the rest is clean.
InitMem(e, b0) ==
  [a \in Arrays |->
    [d \in Blocks |->
      IF (a = "c" /\ e \notin {"finufft2d2", "finufft2d2many"})
         \/ (a = "fk" /\ e \in {"finufft2d2", "finufft2d2many"})
      THEN In(b0 + d) ELSE Fresh(FALSE)]]

InitPc(e) == IF e \in ManyFns THEN "ndata" ELSE "setup"

InitState ==
  /\ fn = entry
  /\ pc = InitPc(entry)
  /\ stack = <<>>
  /\ loc = Locals(arg.ms, arg.mt, arg.nj, arg.inrange, "c", "fk", arg.iflag)
  /\ heap = [b \in Bufs |-> "none"]
  /\ plan = "none"
  /\ mem = InitMem(entry, 0)
  /\ hist = <<>>
  /\ status = "running"
  /\ ret = 0
  /\ runs = <<>>

Init == InitWith(EntryFns, {1}, {0}, {FALSE}, EpsVals, {TRUE}) /\ InitState

\* ------------------------------------------------------------ control
\* return v after the steps evs: to the caller's frame if there is one, else
\* out of the entry.
Return(evs, v) ==
  /\ hist' = hist \o evs \o <<Ev("return", "", -1, -1, -1, v)>>
  /\ IF stack = <<>>
     THEN /\ status' = "returned"
          /\ ret' = v
          /\ pc' = "done"
          /\ UNCHANGED <<fn, stack, loc>>
     ELSE /\ fn' = stack[Len(stack)].fn
          /\ pc' = stack[Len(stack)].pc
          /\ loc' = [stack[Len(stack)].loc EXCEPT !.ier_t2 = v]
          /\ stack' = SubSeq(stack, 1, Len(stack) - 1)
          /\ UNCHANGED <<status, ret>>

\* after the steps evs, fall through to label l with locals l2
Goto(evs, l, l2) ==
  /\ hist' = hist \o evs
  /\ pc' = l
  /\ loc' = l2
  /\ UNCHANGED <<fn, stack, status, ret>>

Running == status = "running"

\* ---------------------------------------------------- the code's conditions
\* (a test for negative counts only, to compare with)
NdataNegative(ndata) == ndata < 0

\* if (ndata<1)
NdataInvalid(ndata) == ndata < 1

\* (the setup status left untested, to compare with)
SetupUntested(ier_set) == FALSE

\* if (ier_set) return ier_set;
SetupAborts(ier_set) == ier_set # 0

\* (a test of each dimension on its own, to compare with)
DimTooBig(nf1, nf2) == nf1 > MAX_NF \/ nf2 > MAX_NF

\* if (nf1*nf2>MAX_NF)
GridTooBig(nf1, nf2) == nf1 * nf2 > MAX_NF

\* if (ier_spread>0) return ier_spread;
SpreadAborts(ier_spread) == ier_spread > 0

\* if (ier_t2) exit(ier_t2);
Type2Failed(ier_t2) == ier_t2 # 0

\* (the sign as the header comment words it, "if iflag>0 the + sign is
\* used", to compare with)
FftSignStrict(iflag) == IF iflag > 0 THEN 1 ELSE -1

\* int fftsign = (iflag>=0) ? 1 : -1;
FftSign(iflag) == IF iflag >= 0 THEN 1 ELSE -1

\* CPX imasign = (iflag>=0) ? IMA : -IMA;  (+1 for +i, -1 for -i)
ImaSign(iflag) == IF iflag >= 0 THEN 1 ELSE -1

\* The spreader did its work (it fails only with a positive status).
SpreadDone(ier) == ier <= 0

\* The number of fw slices a function allocates: FFTW_ALLOC_CPX(nf1*nf2[*nth]).
NSlices(f, n) == IF f \in SimulFns THEN n ELSE 1

\* int(v): the conversion of a BIGINT to int keeps the low bits
ToInt(v) == ((v - INT_MIN) % (2 * (INT_MAX + 1))) + INT_MIN

\* a * b in int arithmetic: the product when it fits; on overflow the
\* behaviour is undefined, and the environment says whether the value wraps
\* around or is some other int
IntMul(a, b) ==
  IF INT_MIN <= a * b /\ a * b <= INT_MAX THEN a * b
  ELSE IF env.wrap THEN ToInt(a * b) ELSE INT_MAX

\* const int n[] = {int(nf2), int(nf1)};
\* fftw_plan_many_dft(2, n, nth, fw, n, 1, n[0]*n[1], fw, n, 1, n[0]*n[1],
\*                    fftsign, opts.fftw)
PlanManyArgs(nf1, nf2, howmany, fftsign) ==
  LET n == <<ToInt(nf2), ToInt(nf1)>> IN
  [rank |-> 2, n |-> n, howmany |-> howmany,
   istride |-> 1, idist |-> IntMul(n[1], n[2]),
   ostride |-> 1, odist |-> IntMul(n[1], n[2]), sign |-> fftsign]

\* FFTW_EX(p) on the first n slices of fw, in place.
ExecFFT(m, n) ==
  [m EXCEPT !["fw"] = [s \in Blocks |-> IF s < n THEN FFT(m["fw"][s]) ELSE m["fw"][s]]]

\* FFTW_DE(p)
DestroyPlan(p) == IF p = "live" THEN "destroyed" ELSE "corrupt"

\* ------------------------------------------------- the batched entry points
\* finufft2d1many / finufft2d2many: the ndata check, then the tail call.
ManyDispatch(seqfn, simulfn) ==
  /\ Running /\ pc = "ndata"
  /\ IF NdataInvalid(arg.ndata)
     THEN Return(<<Ev("ndata", "", -1, -1, -1, ERR_NDATA_NOTVALID)>>,
                 ERR_NDATA_NOTVALID)
     ELSE /\ hist' = Append(hist, Ev("ndata", "", -1, -1, -1, 0))
          /\ fn' = IF opts.many_seq # 0 THEN seqfn ELSE simulfn
          /\ pc' = "setup"
          /\ UNCHANGED <<stack, loc, status, ret>>
  /\ UNCHANGED <<inputs, heap, plan, mem>>

finufft2d1many ==
  fn = "finufft2d1many" /\ ManyDispatch("finufft2d1manyseq", "finufft2d1manysimul")

finufft2d2many ==
  fn = "finufft2d2many" /\ ManyDispatch("finufft2d2manyseq", "finufft2d2manysimul")

\* ------------------------------------------- the prologue of every function
\* spread_opts spopts; ier_set = setup_spreader_for_nufft(...); if (ier_set) return
SetupSpreader ==
  /\ Running /\ pc = "setup"
  /\ LET ier_set == SetupIer(arg.eps)
         ev == <<Ev("setup", "", -1, -1, -1, ier_set)>>
     IN IF SetupAborts(ier_set)
        THEN Return(ev, ier_set)
        ELSE Goto(ev, IF fn = "finufft2d3" THEN "nhg" ELSE "nf",
                  [loc EXCEPT !.ns = Nspread(arg.eps)])
  /\ UNCHANGED <<inputs, heap, plan, mem>>

\* set_nf_type12 twice, then the MAX_NF check (types 1 and 2)
SetNf ==
  /\ Running /\ pc = "nf" /\ fn \in Type12Fns
  /\ LET nf1 == set_nf_type12(loc.ms, loc.ns)
         nf2 == set_nf_type12(loc.mt, loc.ns)
         ev == <<Ev("nf", "", nf1, nf2, nf1 * nf2, 0)>>
     IN IF GridTooBig(nf1, nf2)
        THEN Return(ev, ERR_MAXNALLOC)
        ELSE Goto(ev, "step0", [loc EXCEPT !.nf1 = nf1, !.nf2 = nf2])
  /\ UNCHANGED <<inputs, heap, plan, mem>>

\* STEP 0: malloc fwkerhalf1, fwkerhalf2 and fill them (onedim_fseries_kernel)
Step0 ==
  /\ Running /\ pc = "step0" /\ fn \in Type12Fns
  /\ heap' = Malloc(heap, {"fwkerhalf1", "fwkerhalf2"})
  /\ Goto(<<Ev("fseries", "fwkerhalf", -1, -1, -1, 0)>>, "plan", loc)
  /\ UNCHANGED <<inputs, plan, mem>>

\* fw = FFTW_ALLOC_CPX(...); fftsign; p = FFTW_PLAN_2D / fftw_plan_many_dft
PlanFFT ==
  /\ Running /\ pc = "plan" /\ fn \in Type12Fns
  /\ heap' = Malloc(heap, {"fw"})
  /\ mem' = [mem EXCEPT !["fw"] =
               [s \in Blocks |-> IF s < NSlices(fn, nth) THEN Fresh(env.junk)
                                 ELSE mem["fw"][s]]]
  /\ plan' = "live"
  /\ Goto(<<Ev("plan", "fw", NSlices(fn, nth), -1, loc.nf1 * loc.nf2,
               FftSign(loc.iflag))>>,
          CASE fn = "finufft2d1" -> "spread"
            [] fn = "finufft2d2" -> "deconv"
            [] OTHER -> "check",
          [loc EXCEPT !.fftsign = FftSign(loc.iflag),
                      !.planargs = IF fn \in SimulFns
                                   THEN PlanManyArgs(loc.nf1, loc.nf2, nth,
                                                     FftSign(loc.iflag))
                                   ELSE @])
  /\ UNCHANGED inputs

\* ------------------------------------------------------------- finufft2d1
\* Step 1: cnufftspread, direction 1; if (ier_spread>0) return ier_spread
d1_spread ==
  /\ Running /\ pc = "spread" /\ fn = "finufft2d1"
  /\ \E ier \in cnufftspreadIer(opts.chkbnds, loc.inrange) :
       LET ev == <<Ev("spread", loc.carr, 0, 0, 0, ier)>> IN
       /\ mem' = IF SpreadDone(ier)
                 THEN [mem EXCEPT !["fw"][0] = SpreadInto(@, mem[loc.carr][0])]
                 ELSE mem
       /\ IF SpreadAborts(ier) THEN Return(ev, ier)
          ELSE Goto(ev, "fft", [loc EXCEPT !.ier_spread = ier])
  /\ UNCHANGED <<inputs, heap, plan>>

\* Step 2: FFTW_EX(p); FFTW_DE(p)
d1_fft ==
  /\ Running /\ pc = "fft" /\ fn = "finufft2d1"
  /\ mem' = ExecFFT(mem, 1)
  /\ plan' = DestroyPlan(plan)
  /\ Goto(<<Ev("fft", plan, 0, 1, -1, 0), Ev("destroy", plan, -1, -1, -1, 0)>>,
          "deconv", loc)
  /\ UNCHANGED <<inputs, heap>>

\* Step 3: deconvolveshuffle2d, direction 1, into fk
d1_deconv ==
  /\ Running /\ pc = "deconv" /\ fn = "finufft2d1"
  /\ mem' = [mem EXCEPT ![loc.fkarr][0] = Deconv1(mem["fw"][0], opts.modeord)]
  /\ Goto(<<Ev("deconv", loc.fkarr, 0, 0, 0, 0)>>, "free", loc)
  /\ UNCHANGED <<inputs, heap, plan>>

\* FFTW_FR(fw); free(fwkerhalf1); free(fwkerhalf2); return 0
d1_free ==
  /\ Running /\ pc = "free" /\ fn = "finufft2d1"
  /\ heap' = Free(heap, {"fw", "fwkerhalf1", "fwkerhalf2"})
  /\ Return(<<Ev("free", "fw", -1, -1, -1, 0)>>, 0)
  /\ UNCHANGED <<inputs, plan, mem>>

\* ------------------------------------------------------------- finufft2d2
\* STEP 1: deconvolveshuffle2d, direction 2, from fk into fw
d2_deconv ==
  /\ Running /\ pc = "deconv" /\ fn = "finufft2d2"
  /\ mem' = [mem EXCEPT !["fw"][0] = Deconv2(mem[loc.fkarr][0], opts.modeord)]
  /\ Goto(<<Ev("deconv", loc.fkarr, 0, 0, 0, 0)>>, "fft", loc)
  /\ UNCHANGED <<inputs, heap, plan>>

\* Step 2: FFTW_EX(p); FFTW_DE(p)
d2_fft ==
  /\ Running /\ pc = "fft" /\ fn = "finufft2d2"
  /\ mem' = ExecFFT(mem, 1)
  /\ plan' = DestroyPlan(plan)
  /\ Goto(<<Ev("fft", plan, 0, 1, -1, 0), Ev("destroy", plan, -1, -1, -1, 0)>>,
          "interp", loc)
  /\ UNCHANGED <<inputs, heap>>

\* Step 3: cnufftspread, direction 2; if (ier_spread>0) return ier_spread
d2_interp ==
  /\ Running /\ pc = "interp" /\ fn = "finufft2d2"
  /\ \E ier \in cnufftspreadIer(opts.chkbnds, loc.inrange) :
       LET ev == <<Ev("interp", loc.carr, 0, 0, 0, ier)>> IN
       /\ mem' = IF SpreadDone(ier)
                 THEN [mem EXCEPT ![loc.carr][0] = Interp(mem["fw"][0])]
                 ELSE mem
       /\ IF SpreadAborts(ier) THEN Return(ev, ier)
          ELSE Goto(ev, "free", [loc EXCEPT !.ier_spread = ier])
  /\ UNCHANGED <<inputs, heap, plan>>

\* FFTW_FR(fw); free(fwkerhalf1); free(fwkerhalf2); return 0
d2_free ==
  /\ Running /\ pc = "free" /\ fn = "finufft2d2"
  /\ heap' = Free(heap, {"fw", "fwkerhalf1", "fwkerhalf2"})
  /\ Return(<<Ev("free", "fw", -1, -1, -1, 0)>>, 0)
  /\ UNCHANGED <<inputs, plan, mem>>

\* ------------------------------------------------------------- finufft2d3
\* arraywidcen x4, set_nhg_type3 x2, then the MAX_NF check
t3_nhg ==
  /\ Running /\ pc = "nhg" /\ fn = "finufft2d3"
  /\ LET nf1 == set_nhg_type3(arg.xs1, loc.ns)
         nf2 == set_nhg_type3(arg.xs2, loc.ns)
         ev == <<Ev("nf", "", nf1, nf2, nf1 * nf2, 0)>>
     IN IF GridTooBig(nf1, nf2)
        THEN Return(ev, ERR_MAXNALLOC)
        ELSE Goto(ev, "prephase", [loc EXCEPT !.nf1 = nf1, !.nf2 = nf2])
  /\ UNCHANGED <<inputs, heap, plan, mem>>

\* malloc xpj, ypj, cpj; rescale the points and rephase the strengths
t3_prephase ==
  /\ Running /\ pc = "prephase" /\ fn = "finufft2d3"
  /\ heap' = Malloc(heap, {"xpj", "ypj", "cpj"})
  /\ mem' = [mem EXCEPT !["cpj"][0] = [mem["c"][0] EXCEPT !.w = TRUE]]
  /\ Goto(<<Ev("prephase", "cpj", 0, -1, 0, ImaSign(loc.iflag))>>, "spread", loc)
  /\ UNCHANGED <<inputs, plan>>

\* Step 1: fw = malloc; cnufftspread direction 1; free xpj, ypj, cpj;
\* if (ier_spread>0) return ier_spread
t3_spread ==
  /\ Running /\ pc = "spread" /\ fn = "finufft2d3"
  /\ \E ier \in cnufftspreadIer(opts.chkbnds, TRUE) :
       LET ev == <<Ev("alloc", "fw3", -1, -1, loc.nf1 * loc.nf2, 0),
                   Ev("spread", "cpj", 0, 0, 0, ier)>> IN
       /\ mem' = [mem EXCEPT !["fw3"][0] =
                    IF SpreadDone(ier)
                    THEN SpreadInto(Fresh(env.junk), mem["cpj"][0])
                    ELSE Fresh(env.junk)]
       /\ IF SpreadAborts(ier) THEN Return(ev, ier)
          ELSE Goto(ev, "call2", [loc EXCEPT !.ier_spread = ier])
  /\ heap' = Free(Malloc(heap, {"fw3"}), {"xpj", "ypj", "cpj"})
  /\ UNCHANGED <<inputs, plan>>

\* Step 2: malloc sp, tp; rescale the targets; call finufft2d2(nk,sp,tp,fk,
\* iflag,eps,nf1,nf2,fw,opts)
t3_call2 ==
  /\ Running /\ pc = "call2" /\ fn = "finufft2d3"
  /\ heap' = Malloc(heap, {"sp", "tp"})
  /\ hist' = Append(hist, Ev("call", "finufft2d2", -1, -1, -1, loc.iflag))
  /\ stack' = Append(stack, [fn |-> fn, pc |-> "after2", loc |-> loc])
  /\ fn' = "finufft2d2"
  /\ pc' = "setup"
  /\ loc' = Locals(loc.nf1, loc.nf2, arg.nk, TRUE, "fk", "fw3", loc.iflag)
  /\ UNCHANGED <<inputs, plan, mem, status, ret>>

\* free(fw); if (ier_t2) exit(ier_t2)
t3_after2 ==
  /\ Running /\ pc = "after2" /\ fn = "finufft2d3"
  /\ heap' = Free(heap, {"fw3"})
  /\ LET ev == <<Ev("after2", "fw3", -1, -1, -1, loc.ier_t2)>> IN
     IF Type2Failed(loc.ier_t2)
     THEN /\ hist' = hist \o ev \o <<Ev("exit", "", -1, -1, -1, loc.ier_t2)>>
          /\ status' = "exited"
          /\ ret' = loc.ier_t2
          /\ pc' = "done"
          /\ UNCHANGED <<fn, stack, loc>>
     ELSE Goto(ev, "kernel", loc)
  /\ UNCHANGED <<inputs, plan, mem>>

\* Step 3a: malloc fkker1, fkker2; onedim_nuft_kernel x2; free(sp); free(tp)
t3_kernel ==
  /\ Running /\ pc = "kernel" /\ fn = "finufft2d3"
  /\ heap' = Free(Malloc(heap, {"fkker1", "fkker2"}), {"sp", "tp"})
  /\ Goto(<<Ev("nuft", heap["sp"], -1, -1, -1, 0)>>, "deconv", loc)
  /\ UNCHANGED <<inputs, plan, mem>>

\* Step 3b: fk[k] *= 1/(fkker1[k]*fkker2[k]) [* phase]
t3_deconv ==
  /\ Running /\ pc = "deconv" /\ fn = "finufft2d3"
  /\ mem' = [mem EXCEPT !["fk"][0].w = TRUE]
  /\ Goto(<<Ev("deconv3", "fk", 0, -1, 0, ImaSign(loc.iflag))>>, "free", loc)
  /\ UNCHANGED <<inputs, heap, plan>>

\* free(fkker1); free(fkker2); return 0
t3_free ==
  /\ Running /\ pc = "free" /\ fn = "finufft2d3"
  /\ heap' = Free(heap, {"fkker1", "fkker2"})
  /\ Return(<<Ev("free", "fkker", -1, -1, -1, 0)>>, 0)
  /\ UNCHANGED <<inputs, plan, mem>>

\* ------------------------------------------- the batched implementations
\* cnufftsort: whether the points were sorted (they are when there are several)
cnufftsort(nj) == IF nj > 1 THEN 1 ELSE 0

\* CPX* cstart = c+i*nj;  CPX* fkstart = fk+i*ms*mt;
SeqCStart(i, nj) == i * nj
SeqFkStart(i, ms, mt) == i * ms * mt

\* cstart = c + (i+j*nth)*nj;  fkstart = fk + (i+j*nth)*ms*mt;
SimCStart(i, j, n, nj) == (i + j * n) * nj
SimFkStart(i, j, n, ms, mt) == (i + j * n) * ms * mt

\* (every iteration on the first slice, to compare with)
FwStartShared(i, nf1, nf2) == 0

\* fwstart = fw + i*nf1*nf2;
FwStart(i, nf1, nf2) == i * nf1 * nf2

\* (a loop that runs once more, to compare with)
SeqLoopTestInclusive(i, ndata) == i <= ndata

\* for (int i = 0; i < ndata; ++i)
SeqLoopTest(i, ndata) == i < ndata

\* for (int j = 0; j*nth < ndata; ++j)
SimLoopTest(j, n, ndata) == j * n < ndata

\* (a batch that is always full, to compare with)
FullBatchSize(j, n, ndata) == n

\* for (int i = 0; i<min(ndata-j*nth,nth); ++i)
SimBatchSize(j, n, ndata) == Min(ndata - j * n, n)

\* the iterations of one parallel region of batch j
Region(j) == {i \in 0..(MaxNth - 1) : i < SimBatchSize(j, nth, arg.ndata)}

\* (a loop body that starts over at the plan, to compare with)
FirstStepPlans(f) == "plan"

\* the first step of the loop body
FirstStep(f) == IF f \in Type1Fns THEN "spread" ELSE "deconv"

\* where the sequential loop goes with counter i
SeqNext(i) == IF SeqLoopTest(i, arg.ndata) THEN FirstStep(fn) ELSE "free"

\* where the batch loop goes with counter j
SimNext(j) == IF SimLoopTest(j, nth, arg.ndata) THEN FirstStep(fn) ELSE "free"

\* malloc sort_indices; ier_spread = cnufftcheck(...); did_sort = cnufftsort(...);
\* if (ier_spread>0) return ier_spread;  then the loop is entered
CheckSort ==
  /\ Running /\ pc = "check" /\ fn \in BatchFns
  /\ heap' = Malloc(heap, {"sort_indices"})
  /\ LET ier == cnufftcheck(opts.chkbnds, loc.inrange)
         ev == <<Ev("check", "", -1, -1, -1, ier),
                 Ev("sort", "sort_indices", -1, -1, -1, cnufftsort(loc.nj))>>
         l2 == [loc EXCEPT !.ier_spread = ier, !.did_sort = cnufftsort(loc.nj),
                           !.i = 0, !.j = 0, !.pend = Region(0)]
     IN IF SpreadAborts(ier) THEN Return(ev, ier)
        ELSE Goto(ev, IF fn \in SeqFns THEN SeqNext(0) ELSE SimNext(0), l2)
  /\ UNCHANGED <<inputs, plan, mem>>

\* ------------------------------------------------------ finufft2d1manyseq
\* Step 1: cnufftspreadwithsortidx into fw; if (ier_spread>0) return ier_spread
seq1_spread ==
  /\ Running /\ pc = "spread" /\ fn = "finufft2d1manyseq"
  /\ \E ier \in cnufftspreadwithsortidxIer :
       LET off == SeqCStart(loc.i, loc.nj)
           d == off \div loc.nj
           ev == <<Ev("spread", "c", d, 0, off, ier)>>
       IN /\ mem' = IF SpreadDone(ier)
                    THEN [mem EXCEPT !["fw"][0] = SpreadInto(@, mem["c"][d])]
                    ELSE mem
          /\ IF SpreadAborts(ier) THEN Return(ev, ier)
             ELSE Goto(ev, "fft", [loc EXCEPT !.ier_spread = ier])
  /\ UNCHANGED <<inputs, heap, plan>>

\* Step 2: FFTW_EX(p)
seq1_fft ==
  /\ Running /\ pc = "fft" /\ fn = "finufft2d1manyseq"
  /\ mem' = ExecFFT(mem, 1)
  /\ Goto(<<Ev("fft", plan, loc.i, 1, -1, 0)>>, "deconv", loc)
  /\ UNCHANGED <<inputs, heap, plan>>

\* Step 3: deconvolveshuffle2d direction 1 into fkstart; ++i
seq1_deconv ==
  /\ Running /\ pc = "deconv" /\ fn = "finufft2d1manyseq"
  /\ LET off == SeqFkStart(loc.i, loc.ms, loc.mt)
         d == off \div (loc.ms * loc.mt)
     IN /\ mem' = [mem EXCEPT !["fk"][d] = Deconv1(mem["fw"][0], opts.modeord)]
        /\ Goto(<<Ev("deconv", "fk", d, 0, off, 0)>>, SeqNext(loc.i + 1),
                [loc EXCEPT !.i = loc.i + 1])
  /\ UNCHANGED <<inputs, heap, plan>>

\* FFTW_DE(p); FFTW_FR(fw); free(fwkerhalf1); free(fwkerhalf2);
\* free(sort_indices); return 0
seq1_free ==
  /\ Running /\ pc = "free" /\ fn = "finufft2d1manyseq"
  /\ plan' = DestroyPlan(plan)
  /\ heap' = Free(heap, Bufs12)
  /\ Return(<<Ev("destroy", plan, -1, -1, -1, 0), Ev("free", "fw", -1, -1, -1, 0)>>, 0)
  /\ UNCHANGED <<inputs, mem>>

\* ------------------------------------------------------ finufft2d2manyseq
\* STEP 1: deconvolveshuffle2d direction 2 from fkstart into fw
seq2_deconv ==
  /\ Running /\ pc = "deconv" /\ fn = "finufft2d2manyseq"
  /\ LET off == SeqFkStart(loc.i, loc.ms, loc.mt)
         d == off \div (loc.ms * loc.mt)
     IN /\ mem' = [mem EXCEPT !["fw"][0] = Deconv2(mem["fk"][d], opts.modeord)]
        /\ Goto(<<Ev("deconv", "fk", d, 0, off, 0)>>, "fft", loc)
  /\ UNCHANGED <<inputs, heap, plan>>

\* Step 2: FFTW_EX(p)
seq2_fft ==
  /\ Running /\ pc = "fft" /\ fn = "finufft2d2manyseq"
  /\ mem' = ExecFFT(mem, 1)
  /\ Goto(<<Ev("fft", plan, loc.i, 1, -1, 0)>>, "interp", loc)
  /\ UNCHANGED <<inputs, heap, plan>>

\* Step 3: cnufftspreadwithsortidx into cstart;
\* if (ier_spread>0) return ier_spread; ++i
seq2_interp ==
  /\ Running /\ pc = "interp" /\ fn = "finufft2d2manyseq"
  /\ \E ier \in cnufftspreadwithsortidxIer :
       LET off == SeqCStart(loc.i, loc.nj)
           d == off \div loc.nj
           ev == <<Ev("interp", "c", d, 0, off, ier)>>
       IN /\ mem' = IF SpreadDone(ier)
                    THEN [mem EXCEPT !["c"][d] = Interp(mem["fw"][0])]
                    ELSE mem
          /\ IF SpreadAborts(ier) THEN Return(ev, ier)
             ELSE Goto(ev, SeqNext(loc.i + 1),
                       [loc EXCEPT !.ier_spread = ier, !.i = loc.i + 1])
  /\ UNCHANGED <<inputs, heap, plan>>

\* FFTW_FR(fw); free(fwkerhalf1); free(fwkerhalf2); free(sort_indices); return 0
seq2_free ==
  /\ Running /\ pc = "free" /\ fn = "finufft2d2manyseq"
  /\ heap' = Free(heap, Bufs12)
  /\ Return(<<Ev("free", "fw", -1, -1, -1, 0)>>, 0)
  /\ UNCHANGED <<inputs, plan, mem>>

\* ---------------------------------------------------- finufft2d1manysimul
\* if (ier_spread>0) { ier_spreads[i] = ier_spread; abort[i] = 1; }
RecordIer(l, i, ier) ==
  IF SpreadAborts(ier)
  THEN [l EXCEPT !.ier_spreads[i] = ier, !.abort[i] = 1]
  ELSE l

\* for (int i = 0; i < nth; ++i) if (abort[i]) return ier_spreads[i];
Aborted(l) == \E i \in 0..(nth - 1) : l.abort[i] # 0
\* (a scan from the last slot down, to compare with)
LastAborted(l) ==
  CHOOSE i \in 0..(nth - 1) :
    l.abort[i] # 0 /\ \A k \in (i + 1)..(nth - 1) : l.abort[k] = 0

FirstAborted(l) ==
  CHOOSE i \in 0..(nth - 1) :
    l.abort[i] # 0 /\ \A k \in 0..(i - 1) : l.abort[k] = 0

\* Step 1, iteration i of the parallel for: spread block i+j*nth into slice i
sim1_spread(i) ==
  /\ Running /\ pc = "spread" /\ fn = "finufft2d1manysimul"
  /\ i \in loc.pend
  /\ \E ier \in cnufftspreadwithsortidxIer :
       LET off == SimCStart(i, loc.j, nth, loc.nj)
           d == off \div loc.nj
           sl == FwStart(i, loc.nf1, loc.nf2) \div (loc.nf1 * loc.nf2)
       IN /\ mem' = IF SpreadDone(ier)
                    THEN [mem EXCEPT !["fw"][sl] = SpreadInto(@, mem["c"][d])]
                    ELSE mem
          /\ Goto(<<Ev("spread", "c", d, sl, off, ier)>>, "spread",
                  [RecordIer(loc, i, ier) EXCEPT !.pend = loc.pend \ {i}])
  /\ UNCHANGED <<inputs, heap, plan>>

\* the end of the parallel region, then the scan of abort[]
sim1_join ==
  /\ Running /\ pc = "spread" /\ fn = "finufft2d1manysimul"
  /\ loc.pend = {}
  /\ IF Aborted(loc)
     THEN LET v == loc.ier_spreads[FirstAborted(loc)]
          IN Return(<<Ev("join", "", loc.j, FirstAborted(loc), -1, v)>>, v)
     ELSE Goto(<<Ev("join", "", loc.j, -1, -1, 0)>>, "fft", loc)
  /\ UNCHANGED <<inputs, heap, plan, mem>>

\* Step 2: FFTW_EX(p), the nth slices in one call
sim1_fft ==
  /\ Running /\ pc = "fft" /\ fn = "finufft2d1manysimul"
  /\ mem' = ExecFFT(mem, nth)
  /\ Goto(<<Ev("fft", plan, loc.j, nth, -1, 0)>>, "deconv",
          [loc EXCEPT !.pend = Region(loc.j)])
  /\ UNCHANGED <<inputs, heap, plan>>

\* Step 3, iteration i of the parallel for: deconvolve slice i into block i+j*nth
sim1_deconv(i) ==
  /\ Running /\ pc = "deconv" /\ fn = "finufft2d1manysimul"
  /\ i \in loc.pend
  /\ LET off == SimFkStart(i, loc.j, nth, loc.ms, loc.mt)
         d == off \div (loc.ms * loc.mt)
         sl == FwStart(i, loc.nf1, loc.nf2) \div (loc.nf1 * loc.nf2)
     IN /\ mem' = [mem EXCEPT !["fk"][d] = Deconv1(mem["fw"][sl], opts.modeord)]
        /\ Goto(<<Ev("deconv", "fk", d, sl, off, 0)>>, "deconv",
                [loc EXCEPT !.pend = loc.pend \ {i}])
  /\ UNCHANGED <<inputs, heap, plan>>

\* the end of the deconvolve region; ++j
sim1_endbatch ==
  /\ Running /\ pc = "deconv" /\ fn = "finufft2d1manysimul"
  /\ loc.pend = {}
  /\ Goto(<<Ev("endbatch", "", loc.j, -1, -1, 0)>>, SimNext(loc.j + 1),
          [loc EXCEPT !.j = loc.j + 1, !.pend = Region(loc.j + 1)])
  /\ UNCHANGED <<inputs, heap, plan, mem>>

\* FFTW_DE(p); FFTW_FR(fw); free(fwkerhalf1); free(fwkerhalf2);
\* free(sort_indices); return 0
sim1_free ==
  /\ Running /\ pc = "free" /\ fn = "finufft2d1manysimul"
  /\ plan' = DestroyPlan(plan)
  /\ heap' = Free(heap, Bufs12)
  /\ Return(<<Ev("destroy", plan, -1, -1, -1, 0), Ev("free", "fw", -1, -1, -1, 0)>>, 0)
  /\ UNCHANGED <<inputs, mem>>

\* ---------------------------------------------------- finufft2d2manysimul
\* STEP 1, iteration i: amplify block i+j*nth of fk into slice i
sim2_deconv(i) ==
  /\ Running /\ pc = "deconv" /\ fn = "finufft2d2manysimul"
  /\ i \in loc.pend
  /\ LET off == SimFkStart(i, loc.j, nth, loc.ms, loc.mt)
         d == off \div (loc.ms * loc.mt)
         sl == FwStart(i, loc.nf1, loc.nf2) \div (loc.nf1 * loc.nf2)
     IN /\ mem' = [mem EXCEPT !["fw"][sl] = Deconv2(mem["fk"][d], opts.modeord)]
        /\ Goto(<<Ev("deconv", "fk", d, sl, off, 0)>>, "deconv",
                [loc EXCEPT !.pend = loc.pend \ {i}])
  /\ UNCHANGED <<inputs, heap, plan>>

\* the end of the amplify region, then Step 2: FFTW_EX(p)
sim2_fft ==
  /\ Running /\ pc = "deconv" /\ fn = "finufft2d2manysimul"
  /\ loc.pend = {}
  /\ mem' = ExecFFT(mem, nth)
  /\ Goto(<<Ev("fft", plan, loc.j, nth, -1, 0)>>, "interp",
          [loc EXCEPT !.pend = Region(loc.j)])
  /\ UNCHANGED <<inputs, heap, plan>>

\* Step 3, iteration i: interpolate slice i into block i+j*nth of c
sim2_interp(i) ==
  /\ Running /\ pc = "interp" /\ fn = "finufft2d2manysimul"
  /\ i \in loc.pend
  /\ \E ier \in cnufftspreadwithsortidxIer :
       LET off == SimCStart(i, loc.j, nth, loc.nj)
           d == off \div loc.nj
           sl == FwStart(i, loc.nf1, loc.nf2) \div (loc.nf1 * loc.nf2)
       IN /\ mem' = IF SpreadDone(ier)
                    THEN [mem EXCEPT !["c"][d] = Interp(mem["fw"][sl])]
                    ELSE mem
          /\ Goto(<<Ev("interp", "c", d, sl, off, ier)>>, "interp",
                  [RecordIer(loc, i, ier) EXCEPT !.pend = loc.pend \ {i}])
  /\ UNCHANGED <<inputs, heap, plan>>

\* the end of the interpolation region, the scan of abort[], ++j
sim2_join ==
  /\ Running /\ pc = "interp" /\ fn = "finufft2d2manysimul"
  /\ loc.pend = {}
  /\ IF Aborted(loc)
     THEN LET v == loc.ier_spreads[FirstAborted(loc)]
          IN Return(<<Ev("join", "", loc.j, FirstAborted(loc), -1, v)>>, v)
     ELSE Goto(<<Ev("join", "", loc.j, -1, -1, 0),
                 Ev("endbatch", "", loc.j, -1, -1, 0)>>,
               SimNext(loc.j + 1),
               [loc EXCEPT !.j = loc.j + 1, !.pend = Region(loc.j + 1)])
  /\ UNCHANGED <<inputs, heap, plan, mem>>

\* FFTW_FR(fw); free(fwkerhalf1); free(fwkerhalf2); free(sort_indices); return 0
sim2_free ==
  /\ Running /\ pc = "free" /\ fn = "finufft2d2manysimul"
  /\ heap' = Free(heap, Bufs12)
  /\ Return(<<Ev("free", "fw", -1, -1, -1, 0)>>, 0)
  /\ UNCHANGED <<inputs, plan, mem>>

\* ------------------------------------------------------------------ Next
Next ==
  \/ finufft2d1many
  \/ finufft2d2many
  \/ SetupSpreader
  \/ SetNf
  \/ Step0
  \/ PlanFFT
  \/ d1_spread
  \/ d1_fft
  \/ d1_deconv
  \/ d1_free
  \/ d2_deconv
  \/ d2_fft
  \/ d2_interp
  \/ d2_free
  \/ t3_nhg
  \/ t3_prephase
  \/ t3_spread
  \/ t3_call2
  \/ t3_after2
  \/ t3_kernel
  \/ t3_deconv
  \/ t3_free
  \/ CheckSort
  \/ seq1_spread
  \/ seq1_fft
  \/ seq1_deconv
  \/ seq1_free
  \/ seq2_deconv
  \/ seq2_fft
  \/ seq2_interp
  \/ seq2_free
  \/ \E i \in 0..(MaxNth - 1) : sim1_spread(i)
  \/ sim1_join
  \/ sim1_fft
  \/ \E i \in 0..(MaxNth - 1) : sim1_deconv(i)
  \/ sim1_endbatch
  \/ sim1_free
  \/ \E i \in 0..(MaxNth - 1) : sim2_deconv(i)
  \/ sim2_fft
  \/ \E i \in 0..(MaxNth - 1) : sim2_interp(i)
  \/ sim2_join
  \/ sim2_free

Spec == Init /\ [][Next]_vars

\* ------------------------------------------- the batch against the loop
\* One problem (xj, yj, c, iflag, eps, ms, mt, opts) given to finufft2d1many
\* with many_seq=0, then with many_seq=1, then to finufft2d1 once per block
\* of c; runs collects the outcome of each call.  The spreader fails on no
\* valid input here, so that the calls can be compared.
NLanes == 2 + arg.ndata
LaneEntry(n) == IF n <= 2 THEN "finufft2d1many" ELSE "finufft2d1"
LaneSeq(n)   == IF n = 2 THEN 1 ELSE 0
LaneBlock(n) == IF n <= 2 THEN 0 ELSE n - 3

InitEq ==
  /\ entry = LaneEntry(1)
  /\ opts \in [many_seq : {LaneSeq(1)}, chkbnds : {0, 1}, modeord : {0}]
  /\ nth \in 1..MaxNth
  /\ env \in [junk : {FALSE}, flaky : {FALSE}, wrap : {TRUE}]
  /\ arg \in [ndata : 1..MaxNdata, nj : 1..MaxNj, nk : {1},
              eps : EpsVals, ms : ModeVals, mt : ModeVals,
              xs1 : {1}, xs2 : {1}, iflag : {1}, inrange : BOOLEAN]
  /\ ~arg.inrange => opts.chkbnds = 1
  /\ InitState

\* the call has ended: record its outcome and make the next call
Relaunch ==
  /\ ~Running
  /\ Len(runs) < NLanes
  /\ runs' = Append(runs, [status |-> status, ret |-> ret, fk |-> mem["fk"]])
  /\ IF Len(runs) + 1 < NLanes
     THEN LET n == Len(runs) + 2 IN
          /\ entry' = LaneEntry(n)
          /\ opts' = [opts EXCEPT !.many_seq = LaneSeq(n)]
          /\ fn' = LaneEntry(n)
          /\ pc' = InitPc(LaneEntry(n))
          /\ mem' = InitMem(LaneEntry(n), LaneBlock(n))
          /\ status' = "running"
     ELSE /\ status' = "compared"
          /\ UNCHANGED <<entry, opts, fn, pc, mem>>
  /\ stack' = <<>>
  /\ loc' = Locals(arg.ms, arg.mt, arg.nj, arg.inrange, "c", "fk", arg.iflag)
  /\ heap' = [b \in Bufs |-> "none"]
  /\ plan' = "none"
  /\ hist' = <<>>
  /\ ret' = 0
  /\ UNCHANGED <<arg, nth, env>>

NextEq ==
  \/ finufft2d1many
  \/ SetupSpreader
  \/ SetNf
  \/ Step0
  \/ PlanFFT
  \/ d1_spread
  \/ d1_fft
  \/ d1_deconv
  \/ d1_free
  \/ CheckSort
  \/ seq1_spread
  \/ seq1_fft
  \/ seq1_deconv
  \/ seq1_free
  \/ \E i \in 0..(MaxNth - 1) : sim1_spread(i)
  \/ sim1_join
  \/ sim1_fft
  \/ \E i \in 0..(MaxNth - 1) : sim1_deconv(i)
  \/ sim1_endbatch
  \/ sim1_free
  \/ Relaunch

SpecEq == InitEq /\ [][NextEq]_vars

\* ------------------------------------------------- uninitialized memory
\* The calls of Init when malloc and FFTW_ALLOC_CPX hand back memory that
\* holds whatever was there before, and an overflowing int product wraps
\* around or leaves some other value.
InitJunk == InitWith(EntryFns, {1}, {0}, {TRUE}, EpsVals, BOOLEAN) /\ InitState

SpecJunk == InitJunk /\ [][Next]_vars

\* ------------------------------------------------ the two mode orderings
\* One problem given to an entry twice: with modeord=0, then with modeord=1.
\* After each call the output is read element by element; runs collects what
\* was read.  The spreader fails on no valid input here.
InitOrd ==
  /\ entry \in {"finufft2d1", "finufft2d1many", "finufft2d3"}
  /\ opts \in [many_seq : {0, 1}, chkbnds : {0}, modeord : {0}]
  /\ entry \notin ManyFns => opts.many_seq = 0
  /\ nth \in 1..MaxNth
  /\ env \in [junk : {FALSE}, flaky : {FALSE}, wrap : {TRUE}]
  /\ arg \in [ndata : 1..2, nj : {1}, nk : {1},
              eps : {EPSILON}, ms : 1..MaxModes, mt : 1..MaxModes,
              xs1 : {1}, xs2 : {1}, iflag : {1}, inrange : {TRUE}]
  /\ entry \notin ManyFns => arg.ndata = 1
  /\ entry = "finufft2d3" => arg.ms = 1 /\ arg.mt = 1
  /\ InitState

\* the elements of block d of fk as a caller reads them: element i holds
\* what the deconvolve step put there, in the ordering it was asked for
ReadFk(d) ==
  LET v == mem["fk"][d]
      wr == deconvolveshuffle2d(loc.ms, loc.mt, loc.nf1, loc.nf2, v.ord)
  IN [i \in 0..(arg.ms * arg.mt - 1) |->
        {[cell |-> e.cell, ker |-> e.ker, acc |-> v.acc, junk |-> v.junk] :
           e \in {x \in wr : x.idx = i}}]

\* what the type-2 call nested in finufft2d3 took from the spread grid: the
\* grid, nf1 x nf2, is its mode array, and for each mode it pairs an index
\* of the grid with a cell of its own fw, in the ordering it was handed
ReadGrid ==
  deconvolveshuffle2d(loc.nf1, loc.nf2,
                      set_nf_type12(loc.nf1, loc.ns), set_nf_type12(loc.nf2, loc.ns),
                      mem["fk"][0].ord)

\* the call has ended: read its output, then make the same call with modeord=1
Reorder ==
  /\ ~Running
  /\ Len(runs) < 2
  /\ runs' = Append(runs,
       [status |-> status, ret |-> ret, modeord |-> opts.modeord,
        fk |-> mem["fk"],
        elems |-> IF status = "returned" /\ ret = 0
                  THEN IF entry = "finufft2d3"
                       THEN [d \in {0} |-> ReadGrid]
                       ELSE [d \in 0..(arg.ndata - 1) |-> ReadFk(d)]
                  ELSE <<>>])
  /\ IF Len(runs) = 0
     THEN /\ opts' = [opts EXCEPT !.modeord = 1]
          /\ fn' = entry
          /\ pc' = InitPc(entry)
          /\ mem' = InitMem(entry, 0)
          /\ status' = "running"
     ELSE /\ status' = "compared"
          /\ UNCHANGED <<opts, fn, pc, mem>>
  /\ stack' = <<>>
  /\ loc' = Locals(arg.ms, arg.mt, arg.nj, arg.inrange, "c", "fk", arg.iflag)
  /\ heap' = [b \in Bufs |-> "none"]
  /\ plan' = "none"
  /\ hist' = <<>>
  /\ ret' = 0
  /\ UNCHANGED <<entry, arg, nth, env>>

NextOrd ==
  \/ finufft2d1many
  \/ SetupSpreader
  \/ SetNf
  \/ Step0
  \/ PlanFFT
  \/ d1_spread
  \/ d1_fft
  \/ d1_deconv
  \/ d1_free
  \/ d2_deconv
  \/ d2_fft
  \/ d2_interp
  \/ d2_free
  \/ t3_nhg
  \/ t3_prephase
  \/ t3_spread
  \/ t3_call2
  \/ t3_after2
  \/ t3_kernel
  \/ t3_deconv
  \/ t3_free
  \/ CheckSort
  \/ seq1_spread
  \/ seq1_fft
  \/ seq1_deconv
  \/ seq1_free
  \/ \E i \in 0..(MaxNth - 1) : sim1_spread(i)
  \/ sim1_join
  \/ sim1_fft
  \/ \E i \in 0..(MaxNth - 1) : sim1_deconv(i)
  \/ sim1_endbatch
  \/ sim1_free
  \/ Reorder

SpecOrd == InitOrd /\ [][NextOrd]_vars

\* ------------------------------------------------- the sign of the exponent
\* Every entry called with iflag negative, zero and positive, on valid input
\* and with a spreader that does not fail.
InitSign ==
  /\ entry \in EntryFns
  /\ opts \in [many_seq : {0, 1}, chkbnds : {0}, modeord : {0}]
  /\ entry \notin ManyFns => opts.many_seq = 0
  /\ nth \in 1..MaxNth
  /\ env \in [junk : {FALSE}, flaky : {FALSE}, wrap : {TRUE}]
  /\ arg \in [ndata : 0..MaxNdata, nj : {1}, nk : {1},
              eps : EpsVals, ms : ModeVals, mt : ModeVals,
              xs1 : XSVals, xs2 : XSVals, iflag : IflagVals, inrange : {TRUE}]
  /\ entry \notin ManyFns => arg.ndata = 1
  /\ entry # "finufft2d3" => arg.nk = 1 /\ arg.xs1 = 1 /\ arg.xs2 = 1
  /\ entry = "finufft2d3" => arg.ms = 1 /\ arg.mt = 1
  /\ InitState

SpecSign == InitSign /\ [][Next]_vars

\* ================================================================ claims
\* ---------------------------------------------- reading the history
Steps == 1..Len(hist)

\* the steps of the pipeline: spread, FFT, deconvolve, interpolate
PipelineOps == {"spread", "fft", "deconv", "interp", "deconv3"}

\* a step that called the spreader (cnufftspread, cnufftspreadwithsortidx
\* or cnufftcheck)
SpreaderOps == {"spread", "interp", "check"}

\* two iterations of the same parallel region of a simultaneous batch
SameRegion(a, b) ==
  /\ a.fn \in SimulFns /\ b.fn = a.fn
  /\ a.op = b.op
  /\ a.d - a.sl = b.d - b.sl

Returned == status = "returned"

\* ---------------------------------------------------------------- C1
\* C1: on every return path of every entry, every buffer the invocation
\* allocated has been freed and every FFT plan it created is destroyed.
C1_ReleasedOnReturn ==
  Returned => (\A b \in Bufs : heap[b] # "live") /\ plan # "live"

\* ---------------------------------------------------------------- C2
\* C2: finufft2d3 always hands control back to its caller: when the nested
\* finufft2d2 call fails with a non-zero code, finufft2d3 returns that code
\* rather than ending the process or going on to the deconvolve step.
C2_Type2FailureReturned ==
  /\ status # "exited"
  /\ \A k \in Steps :
       (hist[k].op = "after2" /\ hist[k].ier # 0) =>
         /\ status = "returned" /\ ret = hist[k].ier
         /\ \A m \in (k + 1)..Len(hist) : hist[m].op \notin {"nuft", "deconv3"}

\* ---------------------------------------------------------------- C3
\* C3: any non-zero status of a spreader call, whatever its sign, aborts the
\* transform: no later pipeline step runs (the other iterations of the same
\* parallel region aside) and the entry returns that status.
C3_NonZeroSpreadAborts ==
  \A k \in Steps :
    (hist[k].op \in SpreaderOps /\ hist[k].ier # 0) =>
      /\ \A m \in (k + 1)..Len(hist) :
           hist[m].op \in PipelineOps => SameRegion(hist[k], hist[m])
      /\ Returned =>
           \E m \in Steps : /\ hist[m].op \in SpreaderOps
                            /\ hist[m].ier # 0
                            /\ ret = hist[m].ier

\* ---------------------------------------------------------------- C4
SimFailure(e) ==
  e.fn \in SimulFns /\ e.op \in {"spread", "interp"} /\ e.ier > 0

\* the failures of the parallel region that step k belongs to
RegionFailures(k) ==
  {m \in Steps : SimFailure(hist[m]) /\ SameRegion(hist[k], hist[m])}

\* the lowest slot of that region whose spreader call failed
LowestFailure(k) ==
  CHOOSE m \in RegionFailures(k) :
    \A n \in RegionFailures(k) : hist[m].sl <= hist[n].sl

\* the region of step k is complete: every iteration of the batch is in hist
RegionComplete(k) ==
  LET e == hist[k]
      j == (e.d - e.sl) \div nth
  IN \A i \in 0..(nth - 1) :
       i + j * nth < arg.ndata =>
         \E m \in Steps : SameRegion(e, hist[m]) /\ hist[m].sl = i

\* C4: in the simultaneous paths a spreader error of an iteration is recorded
\* in the iteration's own slot, nothing returns inside the parallel region,
\* and after the join the function returns the code of the lowest failing
\* slot; no later batch starts and, in type 1, neither the FFT nor the
\* deconvolve of the failing batch runs.  (A spreader error is a positive
\* status, as every named error code is.)
C4_SlotErrorsSurfaced ==
  \A k \in Steps :
    SimFailure(hist[k]) =>
      \* recorded in its own slot, as long as the function runs
      /\ (Running /\ fn = hist[k].fn) =>
           /\ loc.abort[hist[k].sl] # 0
           /\ loc.ier_spreads[hist[k].sl] = hist[k].ier
      \* nothing but the rest of the region and the join follows
      /\ \A m \in (k + 1)..Len(hist) :
           \/ SameRegion(hist[k], hist[m])
           \/ hist[m].op \in {"join", "return"}
      \* the return comes after the complete region and its join, and hands
      \* back the code of the lowest failing slot
      /\ Returned =>
           /\ RegionComplete(k)
           /\ \E m \in (k + 1)..Len(hist) : hist[m].op = "join"
           /\ ret = hist[LowestFailure(k)].ier

\* C4's case: both slots of one batch failed, with different codes, and the
\* function has returned.
C4_Witness ==
  /\ Returned
  /\ \E k, m \in Steps :
       /\ SimFailure(hist[k]) /\ SimFailure(hist[m])
       /\ SameRegion(hist[k], hist[m])
       /\ hist[k].sl < hist[m].sl
       /\ hist[k].ier # hist[m].ier
       /\ k > m

\* ---------------------------------------------------------------- C5
\* the length of one block of the array a step touches
BlockLen(e) == IF e.x = "c" THEN arg.nj ELSE arg.ms * arg.mt

\* a step of a simultaneous path that touches a block of c or fk
SimAccess(e) ==
  e.fn \in SimulFns /\ e.op \in {"spread", "deconv", "interp"}

\* the steps that end a batch, and the batch a step belongs to: the number
\* of batches that ended before it
Ends == {q \in Steps : hist[q].op = "endbatch"}
BatchOf(k) == Cardinality({q \in Ends : q < k})

CeilDiv(a, b) == (a + b - 1) \div b

\* C5: for every ndata >= 1 and nth >= 1, ragged final batch included, the
\* simultaneous paths run exactly ceil(ndata/nth) batches and process every
\* transform index d in 0..ndata-1 exactly once; transform d touches only
\* block d of c and block d of fk, and nothing at or beyond ndata*nj of c or
\* ndata*ms*mt of fk.
C5_RaggedBatches ==
  LET acc == {k \in Steps : SimAccess(hist[k])} IN
  /\ \A k \in acc :
       \* the block is a whole block of the array, below its end
       /\ hist[k].off = hist[k].d * BlockLen(hist[k])
       /\ hist[k].off >= 0
       /\ hist[k].off + BlockLen(hist[k]) <= arg.ndata * BlockLen(hist[k])
  /\ \A k, m \in acc :
       \* no transform index is processed twice by the same step
       /\ (hist[m].op = hist[k].op /\ hist[m].d = hist[k].d) => m = k
       \* the steps of one slice in one batch are one transform's
       /\ (hist[m].sl = hist[k].sl /\ hist[m].d # hist[k].d) =>
            BatchOf(m) # BatchOf(k)
  /\ (Returned /\ ret = 0 /\ fn \in SimulFns) =>
       /\ Cardinality(Ends) = CeilDiv(arg.ndata, nth)
       /\ \A d \in 0..(arg.ndata - 1) :
            \A o \in (IF fn \in Type1Fns THEN {"spread", "deconv"}
                      ELSE {"deconv", "interp"}) :
              \E k \in acc : hist[k].op = o /\ hist[k].d = d

\* C5's case: a batched call with a ragged last batch (3 transforms on 2
\* threads) has returned successfully from the simultaneous path.
C5_Witness ==
  /\ Returned /\ ret = 0 /\ fn \in SimulFns
  /\ arg.ndata = 3 /\ nth = 2
  /\ \E k \in Steps : SimAccess(hist[k]) /\ hist[k].d = 2 /\ hist[k].sl = 0

\* ---------------------------------------------------------------- C6
Compared == status = "compared"

\* the fk block of transform d as the separate finufft2d1 call produced it
LoopFk(d) == runs[3 + d].fk[0]

\* C6: for any ndata >= 1 and the same inputs, finufft2d1many with
\* many_seq=0, finufft2d1many with many_seq=1 and ndata separate finufft2d1
\* calls on the successive blocks of c return the same status and produce
\* the same fk block for every transform index.
C6_BatchEqualsLoop ==
  Compared =>
    /\ runs[1].ret = runs[2].ret
    /\ \A d \in 0..(arg.ndata - 1) : runs[3 + d].ret = runs[1].ret
    /\ runs[1].ret = 0 =>
         \A d \in 0..(arg.ndata - 1) :
           /\ runs[1].fk[d] = LoopFk(d)
           /\ runs[2].fk[d] = LoopFk(d)

\* ---------------------------------------------------------------- C7
Rejected(eps) == TolLess(eps, EPSILON) \/ ~TolLess(eps, ONE)

PlannedGrid ==
  IF entry = "finufft2d3"
  THEN set_nhg_type3(arg.xs1, Nspread(arg.eps))
         * set_nhg_type3(arg.xs2, Nspread(arg.eps))
  ELSE set_nf_type12(arg.ms, Nspread(arg.eps))
         * set_nf_type12(arg.mt, Nspread(arg.eps))

OtherwiseValid ==
  /\ entry \in ManyFns => arg.ndata >= 1
  /\ ~Rejected(arg.eps)
  /\ PlannedGrid <= MAX_NF

\* the array the entry hands its result back in
OutArray == IF entry \in {"finufft2d2", "finufft2d2many"} THEN "c" ELSE "fk"

OutputUntouched == \A d \in Blocks : ~mem[OutArray][d].w

\* C7: with chkbnds set, every type-1 and type-2 entry called with a
\* coordinate outside the accepted range returns ERR_SPREAD_PTS_OUT_RANGE,
\* without having executed any FFT or written any element of its output.
\* (The call is valid otherwise: the tolerance, the grid and ndata pass.)
C7_OutOfRangeFirst ==
  (/\ entry # "finufft2d3"
   /\ opts.chkbnds = 1 /\ ~arg.inrange
   /\ OtherwiseValid) =>
    /\ \A k \in Steps : hist[k].op # "fft"
    /\ OutputUntouched
    /\ status # "exited"
    /\ Returned => ret = ERR_SPREAD_PTS_OUT_RANGE

\* ---------------------------------------------------------------- C8
NothingAllocated == (\A b \in Bufs : heap[b] = "none") /\ plan = "none"

\* C8: finufft2d1many and finufft2d2many called with ndata < 1 return
\* ERR_NDATA_NOTVALID as their first action: before the eps and grid checks,
\* with nothing allocated, no plan created, neither discipline entered and
\* c and fk unchanged.
C8_NdataFirst ==
  (entry \in ManyFns /\ arg.ndata < 1) =>
    /\ \A k \in Steps : hist[k].op \in {"ndata", "return"}
    /\ fn = entry
    /\ NothingAllocated
    /\ mem = InitMem(entry, 0)
    /\ status # "exited"
    /\ Returned => ret = ERR_NDATA_NOTVALID

\* C8's case: a batched call with ndata < 1 whose tolerance and grid would
\* be rejected too has returned.
C8_Witness ==
  /\ Returned /\ entry \in ManyFns /\ arg.ndata < 1
  /\ Rejected(arg.eps) /\ PlannedGrid > MAX_NF
  /\ Len(hist) = 2

\* ---------------------------------------------------------------- C9
\* the first step of the invocation that step k belongs to
FrameStart(k) ==
  LET calls == {m \in 1..k : hist[m].op = "call" /\ hist[m].depth < hist[k].depth}
  IN IF calls = {} THEN 1 ELSE (CHOOSE m \in calls : \A n \in calls : n <= m) + 1

\* C9: in every entry, when the planned grid has nf1*nf2 > MAX_NF the entry
\* returns ERR_MAXNALLOC having allocated no buffer, created no plan and
\* written nothing to its output; and whenever fw is allocated,
\* nf1*nf2 <= MAX_NF.
C9_GridCap ==
  /\ \A k \in Steps :
       (hist[k].op = "nf" /\ hist[k].off > MAX_NF) =>
         \* the invocation returns ERR_MAXNALLOC at once ...
         /\ k < Len(hist)
         /\ hist[k + 1].op = "return" /\ hist[k + 1].ier = ERR_MAXNALLOC
         /\ \A m \in (k + 1)..Len(hist) : hist[m].depth < hist[k].depth \/ m = k + 1
         \* ... having done nothing but its argument checks
         /\ \A m \in FrameStart(k)..(k - 1) : hist[m].op \in {"ndata", "setup"}
         /\ hist[k].depth = 0 =>
              /\ Returned /\ ret = ERR_MAXNALLOC
              /\ NothingAllocated
              /\ mem = InitMem(entry, 0)
  \* every allocation of fw is of a grid within the cap
  /\ \A k \in Steps :
       hist[k].op \in {"plan", "alloc"} => hist[k].off <= MAX_NF
  /\ heap["fw"] = "live" =>
       /\ \E k \in Steps : hist[k].op = "plan"
       /\ stack = <<>> => loc.nf1 * loc.nf2 <= MAX_NF
  /\ heap["fw3"] = "live" => \E k \in Steps : hist[k].op = "alloc"

\* C9's case: a batched call asking for a grid above the cap has returned
\* ERR_MAXNALLOC.
C9_Witness ==
  /\ Returned /\ ret = ERR_MAXNALLOC
  /\ entry \in ManyFns /\ arg.ndata > 1
  /\ \E k \in Steps : hist[k].op = "nf" /\ hist[k].off > MAX_NF

\* --------------------------------------------------------------- C10
EpsRejectedFirst ==
  /\ \A k \in Steps : hist[k].op \in {"ndata", "setup", "return"}
  /\ NothingAllocated
  /\ mem = InitMem(entry, 0)
  /\ status # "exited"
  /\ Returned =>
       /\ ret = ERR_EPS_TOO_SMALL
       /\ \E k \in Steps : hist[k].op = "setup" /\ hist[k].ier = ret

\* C10 as stated: when the tolerance is rejected (eps below EPSILON, or
\* eps >= 1), every public entry returns ERR_EPS_TOO_SMALL, the status of
\* setup_spreader_for_nufft unchanged, before any grid size is computed, any
\* buffer allocated, any plan created or any output element written.
C10_EpsRejected == Rejected(arg.eps) => EpsRejectedFirst

\* C10 amended: the same, for the batched entries when ndata >= 1 (with
\* ndata < 1 they return ERR_NDATA_NOTVALID before the tolerance is looked at).
C10_EpsRejectedValidNdata ==
  (Rejected(arg.eps) /\ (entry \in ManyFns => arg.ndata >= 1)) =>
    EpsRejectedFirst

\* C10's case: an entry called with eps = 1.0 and a grid above the cap has
\* returned.
C10_Witness ==
  /\ Returned /\ arg.eps = ONE /\ PlannedGrid > MAX_NF
  /\ entry \in ManyFns => arg.ndata >= 1
  /\ \E k \in Steps : hist[k].op = "setup"

Reordered == status = "compared" /\ Len(runs) = 2

BatchSetupOps == {"fseries", "check", "sort", "plan"}

\* the steps done for each transform
TransformOps == {"spread", "fft", "deconv", "interp"}

\* C13: in each batched invocation, whatever ndata is, the kernel
\* Fourier-series tables are computed once, the bounds check and the sort
\* (cnufftsort) run once and one FFT plan is created, all of it before the
\* first transform of the batch is processed; every spread or interpolation
\* of the batch is given the one sort_indices and the did_sort of that sort.
C13_BatchSetupOnce ==
  fn \in BatchFns =>
    LET setup == {k \in Steps : hist[k].op \in BatchSetupOps}
        work  == {k \in Steps : hist[k].op \in TransformOps}
    IN /\ \A k, m \in setup : hist[k].op = hist[m].op => k = m
       /\ work # {} =>
            /\ \A o \in BatchSetupOps : \E k \in setup : hist[k].op = o
            /\ \A k \in setup : \A m \in work : k < m
       /\ \A m \in work :
            hist[m].op \in {"spread", "interp"} =>
              /\ \A k \in setup :
                   hist[k].op = "sort" => hist[m].did_sort = hist[k].ier
              /\ heap["sort_indices"] = "live" \/ ~Running

\* C13's case: a batch of three transforms on sorted points has been
\* processed to the end.
C13_Witness ==
  /\ Returned /\ ret = 0 /\ fn \in BatchFns
  /\ arg.ndata = 3 /\ arg.nj > 1
  /\ \E k \in Steps : hist[k].op = "sort" /\ hist[k].ier = 1
  /\ \E k \in Steps : hist[k].op \in {"spread", "interp"} /\ hist[k].d = 2

\* --------------------------------------------------------------- C15
\* the grid a direction-1 spread step adds to
SpreadTarget(e) == IF e.fn = "finufft2d3" THEN "fw3" ELSE "fw"

\* C15: every direction-1 spread starts from an all-zero fw region, in the
\* single transforms (fw zeroed between its allocation and the spread) and
\* in the batched type 1 (no residue of the previous transform's FFT output
\* in the reused fw or slice): right after a spread the grid holds the
\* spread strengths and nothing else, and the fk block of transform i
\* depends on c block i only.
C15_SpreadStartsFromZero ==
  /\ (hist # <<>> /\ hist[Len(hist)].op = "spread"
        /\ SpreadDone(hist[Len(hist)].ier)) =>
       LET e == hist[Len(hist)]
           v == mem[SpreadTarget(e)][e.sl]
       IN ~v.junk /\ v.acc = mem[e.x][e.d].acc
  /\ fn \in Type1Fns =>
       \A d \in Blocks :
         mem["fk"][d].w =>
           /\ ~mem["fk"][d].junk
           /\ \A a \in mem["fk"][d].acc : a.blk = d

\* --------------------------------------------------------------- C16
\* two steps are iterations of one parallel region: the same loop of the
\* same batch
Concurrent(k, m) ==
  /\ k # m
  /\ SimAccess(hist[k]) /\ SimAccess(hist[m])
  /\ hist[k].op = hist[m].op
  /\ BatchOf(k) = BatchOf(m)

\* what the iterations of the parallel regions have touched so far: no two
\* concurrent iterations share an fw slice, a block of c or a block of fk,
\* and every slice is one of those allocated and planned for
DisjointIterations ==
  LET acc == {k \in Steps : SimAccess(hist[k])} IN
  /\ \A k \in acc :
       /\ 0 <= hist[k].sl /\ hist[k].sl < nth
       /\ \A p \in Steps : hist[p].op = "plan" => hist[k].sl < hist[p].d
  /\ \A k, m \in acc :
       Concurrent(k, m) =>
         /\ hist[k].sl # hist[m].sl
         /\ \/ hist[k].off + BlockLen(hist[k]) <= hist[m].off
            \/ hist[m].off + BlockLen(hist[m]) <= hist[k].off

\* a step is one iteration of a parallel region
InRegion ==
  /\ Running /\ fn \in SimulFns
  /\ pc \in {"spread", "deconv", "interp"}
  /\ loc.pend # {}

\* what one iteration may change: its own fw slice, its own block of c or
\* fk, its own error slot; the buffers, the plan, did_sort, the grid sizes
\* and the batch counter are left alone
IterationFrame ==
  InRegion =>
    \E i \in loc.pend :
      /\ loc'.pend = loc.pend \ {i}
      /\ heap' = heap /\ plan' = plan
      /\ loc'.did_sort = loc.did_sort /\ loc'.j = loc.j
      /\ loc'.nf1 = loc.nf1 /\ loc'.nf2 = loc.nf2
      /\ \A s \in 0..(MaxNth - 1) :
           s # i => /\ loc'.abort[s] = loc.abort[s]
                    /\ loc'.ier_spreads[s] = loc.ier_spreads[s]
      /\ \A a \in Arrays : \A b \in Blocks :
           mem'[a][b] # mem[a][b] =>
             \/ a = "fw" /\ b = i
             \/ a \in {"c", "fk"} /\ b = i + loc.j * nth

\* C16: in the simultaneous paths any two concurrent iterations i # i' of a
\* batch use disjoint fw slices, disjoint c blocks, disjoint fk blocks and
\* distinct error slots, the slice index is below nth (the slices allocated,
\* the howmany of the plan), and the kernel tables, sort_indices and the
\* plan are not written inside the parallel loops: no interleaving has two
\* iterations write, or one write and one read, the same location.
C16_IterationsDoNotInterfere ==
  []DisjointIterations /\ [][IterationFrame]_vars

\* C16's case: in a batch on two threads the iteration of slice 1 ran
\* before the iteration of slice 0 of the same region.
C16_Witness ==
  /\ fn \in SimulFns /\ nth = 2
  /\ \E k, m \in Steps :
       /\ Concurrent(k, m) /\ k < m
       /\ hist[k].sl = 1 /\ hist[m].sl = 0

\* --------------------------------------------------------------- C17
\* C17: in the simultaneous paths the many-FFT plan is built with rank 2,
\* dims {nf2, nf1}, howmany = nth, istride = ostride = 1 and idist = odist
\* equal to nf1*nf2, the stride between the slices that the spread and
\* deconvolve loops use, for every grid within the MAX_NF cap, those whose
\* nf1, nf2 or nf1*nf2 does not fit an int included.
C17_PlanMatchesSlices ==
  (fn \in SimulFns /\ loc.planargs # <<>>) =>
    /\ loc.planargs.rank = 2
    /\ loc.planargs.n = <<loc.nf2, loc.nf1>>
    /\ loc.planargs.howmany = nth
    /\ loc.planargs.istride = 1 /\ loc.planargs.ostride = 1
    /\ loc.planargs.idist = loc.nf1 * loc.nf2
    /\ loc.planargs.odist = loc.nf1 * loc.nf2
    /\ \A i \in 0..(nth - 1) :
         FwStart(i, loc.nf1, loc.nf2) = i * loc.planargs.idist

\* --------------------------------------------------------------- C18
\* the three steps of a transform, in the order the routine is to take them
StepOrder(f) ==
  IF f \in Type1Fns THEN <<"spread", "fft", "deconv">>
  ELSE <<"deconv", "fft", "interp">>

\* the FFT execution e covers transform d: its own transform in the single
\* and sequential routines, the nth transforms of its batch in the
\* simultaneous ones
Covers(e, d) ==
  IF e.fn \in SimulFns THEN d \div nth = e.d ELSE e.d = d

\* C18: for every transform that completes, the steps come in a fixed order
\* with exactly one FFT execution covering it: type 1 is spread, FFT,
\* deconvolve into fk; type 2 is deconvolve from fk, FFT, interpolate.  The
\* sequential batched routines execute the FFT exactly ndata times, and no
\* step of transform i+1 comes before the last step of transform i.
C18_PipelineOrder ==
  LET pipe == {k \in Steps : hist[k].fn \in Type12Fns /\ hist[k].op \in TransformOps}
      ffts == {k \in pipe : hist[k].op = "fft"}
      ends == pipe \ ffts
  IN /\ \A k \in ends :
          LET e == hist[k] IN
          \* the last step of a transform follows an FFT that covers it
          /\ e.op = StepOrder(e.fn)[3] =>
               \E m \in ffts : /\ m < k /\ hist[m].depth = e.depth
                                /\ Covers(hist[m], e.d)
          \* no step is taken twice for one transform
          /\ \A m \in ends :
               (hist[m].op = e.op /\ hist[m].d = e.d /\ hist[m].depth = e.depth)
                 => m = k
     /\ \A m \in ffts :
          \* an FFT follows the first step of every transform it covers
          /\ \A d \in 0..(arg.ndata - 1) :
               Covers(hist[m], d) =>
                 \E k \in ends : /\ k < m /\ hist[k].depth = hist[m].depth
                                  /\ hist[k].op = StepOrder(hist[m].fn)[1]
                                  /\ hist[k].d = d
          \* and is the only one to cover them
          /\ \A k \in ffts :
               (hist[k].d = hist[m].d /\ hist[k].depth = hist[m].depth) => k = m
     \* the sequential routines finish a transform before the next begins
     /\ \A k, m \in pipe :
          (hist[k].fn \in SeqFns /\ hist[k].d < hist[m].d) => k < m
     \* on success every transform has had its last step, and the
     \* sequential routines have executed ndata FFTs
     /\ (Returned /\ ret = 0 /\ fn \in Type12Fns) =>
          /\ \A d \in 0..(arg.ndata - 1) :
               \E k \in ends : hist[k].op = StepOrder(fn)[3] /\ hist[k].d = d
          /\ fn \in SeqFns => Cardinality(ffts) = arg.ndata

\* C18's case: the sequential batched type 2 has completed three transforms.
C18_Witness ==
  /\ Returned /\ ret = 0 /\ fn = "finufft2d2manyseq" /\ arg.ndata = 3
  /\ \E k, m, n \in Steps :
       /\ k < m /\ m < n
       /\ hist[k].op = "deconv" /\ hist[m].op = "fft" /\ hist[n].op = "interp"
       /\ hist[k].d = 2 /\ hist[m].d = 2 /\ hist[n].d = 2

\* --------------------------------------------------------------- C19
\* C19: the result of finufft2d3 does not depend on opts.modeord: the nested
\* type-2 call reads the spread grid as a mode array in the ordering the
\* spreader wrote it in (ascending, modeord=0) whatever modeord the caller
\* passed, and two calls that differ only in opts.modeord return the same fk.
C19_Type3IgnoresModeord ==
  (Reordered /\ entry = "finufft2d3" /\ runs[1].ret = 0 /\ runs[2].ret = 0) =>
    LET nf1 == set_nhg_type3(arg.xs1, Nspread(arg.eps))
        nf2 == set_nhg_type3(arg.xs2, Nspread(arg.eps))
        ascending == deconvolveshuffle2d(nf1, nf2,
                        set_nf_type12(nf1, Nspread(arg.eps)),
                        set_nf_type12(nf2, Nspread(arg.eps)), 0)
    IN /\ runs[1].elems[0] = ascending
       /\ runs[2].elems[0] = ascending
       /\ runs[1].fk = runs[2].fk

\* --------------------------------------------------------------- C20
\* the buffers the step at pc of routine f reads, writes, frees or hands to
\* a callee, apart from those it allocates itself; nested says that f is the
\* type 2 called from finufft2d3, whose mode array is the caller's grid and
\* whose points are the caller's sp, tp
Uses(f, at, nested) ==
  IF f = "finufft2d3"
  THEN CASE at = "spread" -> {"xpj", "ypj", "cpj"}
         [] at = "call2" -> {"fw3"}
         [] at = "after2" -> {"fw3"}
         [] at = "kernel" -> {"sp", "tp"}
         [] at = "deconv" -> {"fkker1", "fkker2"}
         [] at = "free" -> {"fkker1", "fkker2"}
         [] OTHER -> {}
  ELSE LET sorted == IF f \in BatchFns THEN {"sort_indices"} ELSE {}
           tables == {"fwkerhalf1", "fwkerhalf2"}
       IN CASE at = "spread" -> {"fw"} \cup sorted
            [] at = "fft" -> {"fw"}
            [] at = "deconv" ->
                 {"fw"} \cup tables \cup (IF nested THEN {"fw3"} ELSE {})
            [] at = "interp" ->
                 {"fw"} \cup sorted \cup (IF nested THEN {"sp", "tp"} ELSE {})
            [] at = "free" -> {"fw"} \cup tables \cup sorted
            [] OTHER -> {}

\* C20: on every path of every entry, the FFT plan is executed only between
\* its creation and its destruction and is destroyed at most once, and no
\* buffer is used or freed after it was freed; fw is still allocated at the
\* deconvolve step of finufft2d1, which follows the plan's destruction, and
\* sp, tp are still allocated when the type-3 kernel transform is evaluated.
C20_NoUseAfterRelease ==
  /\ plan # "corrupt"
  /\ \A b \in Bufs : heap[b] # "corrupt"
  /\ Running =>
       /\ \A b \in Uses(fn, pc, stack # <<>>) : heap[b] = "live"
       /\ pc = "fft" => plan = "live"
       \* the caller's buffers outlive the nested call
       /\ stack # <<>> => \A b \in {"fw3", "sp", "tp"} : heap[b] = "live"
       /\ (fn = "finufft2d1" /\ pc = "deconv") =>
            plan = "destroyed" /\ heap["fw"] = "live"
       /\ (fn = "finufft2d3" /\ pc = "kernel") =>
            heap["sp"] = "live" /\ heap["tp"] = "live"
  /\ \A k \in Steps :
       /\ hist[k].op = "fft" => hist[k].x = "live"
       /\ hist[k].op = "destroy" => hist[k].x = "live"
       /\ hist[k].op = "nuft" => hist[k].x = "live"

\* C20's case: finufft2d1 has deconvolved from fw after destroying its plan.
C20_Witness ==
  /\ Running /\ fn = "finufft2d1" /\ pc = "free"
  /\ plan = "destroyed" /\ heap["fw"] = "live"
  /\ \E k, m \in Steps :
       k < m /\ hist[k].op = "destroy" /\ hist[m].op = "deconv"

====
